---- MODULE Spec2Model ----
(***************************************************************************)
(* Review collection of the Nykaa scraper (src/nykaa_scraper.py):          *)
(* NykaaScraper._extract_reviews_with_driver, the scroll loop              *)
(* _scrape_reviews_with_infinite_scroll_driver, the three review parsers   *)
(* and the tail of _scrape_product_details_with_driver.                    *)
(*                                                                         *)
(* Text is modelled as a sequence of one-character strings so that        *)
(* slicing (content[:50]) and f-string concatenation are computed.         *)
(* A rating that the parser holds as a float is kept in tenths.            *)
(* A Review object is held in the state as a reference to the element it   *)
(* was parsed from; ReviewOf gives its fields.                             *)
(***************************************************************************)
EXTENDS Integers, Sequences, FiniteSets, TLC

VARIABLES
  pc,                          \* position in _extract_reviews_with_driver
  session,                     \* the renderer session: "alive" or "dead"
  hi,                          \* the reviews page shows Feed[1..hi]
  endIndicator,                \* the page shows its "no more reviews" marker
  reviews, seen_reviews,       \* locals of the scroll loop (lines 2011-2012)
  scroll_attempts,             \* line 2013
  consecutive_no_new_reviews,  \* line 2015
  clicked_after_end,           \* history: a load-more click was made while the marker shows
  fed,                         \* history: every review handed to the accumulator
  rounds,                      \* history: iterations of the loop begun
  aborted,                     \* history: the except of line 2089 ended the loop
  result, path,                \* what _extract_reviews_with_driver returns, and from where
  outcome                      \* how _scrape_product_details_with_driver ends

reviewVars == <<pc, session, hi, endIndicator, reviews, seen_reviews,
                scroll_attempts, consecutive_no_new_reviews, clicked_after_end,
                fed, rounds, aborted, result, path, outcome>>

(* _search_products_with_driver (lines 782-919), one call. *)
VARIABLES
  search_pc,                   \* position in _search_products_with_driver
  search_driver,               \* the driver handed to the search: "live" or "dead"
  max_products,                \* the argument
  product_urls,                \* line 796
  product_cards,               \* the product cards the result page shows
  page_num,                    \* line 807
  clicked_at_cap,              \* history: a next-page click with max_products URLs collected
  search_result                \* what line 919 returns

searchVars == <<search_pc, search_driver, max_products, product_urls,
                product_cards, page_num, clicked_at_cap, search_result>>

(* main, scrape_keywords and the keyword workers of the thread pool        *)
(* (lines 738-780, 2823-2872, 2957-2990).                                  *)
VARIABLES
  main_pc,                     \* position of the main thread
  interrupted,                 \* history: KeyboardInterrupt was raised in the main thread
  work_queue,                  \* keywords submitted to the executor and not yet started
  thread_driver,               \* _thread_local.driver of each pool thread
  worker,                      \* each pool thread's call of _scrape_keyword_thread: its
                               \* locals, and as history the number of pipeline calls
                               \* made, the outcome of the last one and whether it
                               \* started review collection
  futures,                     \* future_to_keyword: the result of each keyword's task
  collected,                   \* keywords whose future the as_completed loop has handled
  saved_data                   \* the file save_data has written, if any

keywordVars == <<main_pc, interrupted, work_queue, thread_driver, worker,
                 futures, collected, saved_data>>

(* What one run of the program leaves on disk for the next: the worker's   *)
(* list, scraped_data and the files save_data writes.                      *)
VARIABLES
  run_pc,                      \* position of the current run of the program,
                               \* "exited" between two runs
  run_keyword,                 \* the keyword the run was started with
  scraped_products,            \* the keyword worker's list (line 761)
  scraped_data,                \* self.scraped_data['products']
  disk,                        \* the content of each output file name
  filename,                    \* the file save_data is writing
  last_saved                   \* history: keyword and products of the last save_data
                               \* that wrote its file in full and was not overwritten

storeVars == <<run_pc, run_keyword, scraped_products, scraped_data, disk, filename,
               last_saved>>

(* _extract_basic_product_info and _extract_json_data_safely on one       *)
(* product page (lines 1093-1200).                                         *)
VARIABLES
  info_pc,                     \* position in _extract_basic_product_info
  soup,                        \* the page: its script tags and what its HTML holds
  script_idx,                  \* the script tag the loop of line 1101 is at
  product_data,                \* line 1097
  safe_call,                   \* history: script and result of the last call of
                               \* _extract_json_data_safely
  html_consulted,              \* history: what _extract_from_html_fallback was
                               \* called with: "no", "soup" or "None"
  product_info                 \* what _extract_basic_product_info returns

infoVars == <<info_pc, soup, script_idx, product_data, safe_call, html_consulted,
              product_info>>

(* The renderer calls one keyword worker makes, in the order of the code   *)
(* (lines 757-769, 800-913, 1031-1076, 1823-1881).                         *)
VARIABLES
  nav_pc,                      \* the worker's position
  nav_left,                    \* product URLs the for loop of line 762 has still to take
  nav_clicks,                  \* next-page clicks of the search so far
  undelayed_get,               \* a navigation has returned and random_delay has not
                               \* run since
  get_since_delay,             \* a navigation was started since the last random_delay
  navigated,                   \* history: the kinds of page navigated to
  unpaced                      \* history: a renderer call was made with undelayed_get,
                               \* or a navigation with get_since_delay

navVars == <<nav_pc, nav_left, nav_clicks, undelayed_get, get_since_delay, navigated,
             unpaced>>

(* scraped_data over several calls of scrape_keywords on one scraper       *)
(* (lines 173-181, 2837-2872). A product is held as its number of reviews. *)
VARIABLES
  agg_pc,                      \* "ready" between calls, "collecting" inside one
  agg_calls,                   \* calls of scrape_keywords begun
  agg_pending,                 \* futures the as_completed loop has still to take
  call_products,               \* all_scraped_products of the call (line 2839)
  scrape_metadata,             \* total_products and total_reviews
  data_products                \* scraped_data['products']

aggVars == <<agg_pc, agg_calls, agg_pending, call_products, scrape_metadata,
             data_products>>

vars == <<reviewVars, searchVars, keywordVars, storeVars, infoVars, navVars, aggVars>>


(* ---------------- program constants ---------------- *)
max_scroll_attempts == 100
max_consecutive_no_new == 8
IdContentLen == 50
PageParseLimit == 50
FallbackLimit == 50
HtmlParseLimit == 20
max_reviews_per_product == 20

(* ---------------- bounds of the model ---------------- *)
FeedLen == 28
InitialLoads == {0, 4}
ScrollGrowth == {0, 2}
ClickGrowth == {0, 4}

(* ---------------- text helpers ---------------- *)
Min(a, b) == IF a < b THEN a ELSE b

Take(s, n) == SubSeq(s, 1, Min(n, Len(s)))

Repeat(ch, n) == [i \in 1..n |-> ch]

DigitChar(d) ==
  CASE d = 0 -> "0" [] d = 1 -> "1" [] d = 2 -> "2" [] d = 3 -> "3"
    [] d = 4 -> "4" [] d = 5 -> "5" [] d = 6 -> "6" [] d = 7 -> "7"
    [] d = 8 -> "8" [] d = 9 -> "9"

RECURSIVE IntToStr(_)
IntToStr(n) ==
  IF n < 10 THEN <<DigitChar(n)>>
  ELSE IntToStr(n \div 10) \o <<DigitChar(n % 10)>>

Anonymous == <<"A","n","o","n","y","m","o","u","s">>

None == [none |-> TRUE]

(* A component that is not running: each specification below runs one      *)
(* component and leaves the others as they are here.                       *)
SearchIdle ==
  /\ search_pc = "idle"
  /\ search_driver = "live"
  /\ max_products = 0
  /\ product_urls = << >>
  /\ product_cards = << >>
  /\ page_num = 0
  /\ clicked_at_cap = FALSE
  /\ search_result = << >>

ReviewIdle ==
  /\ pc = "idle"
  /\ session = "alive"
  /\ hi = 0
  /\ endIndicator = FALSE
  /\ reviews = << >>
  /\ seen_reviews = {}
  /\ scroll_attempts = 0
  /\ consecutive_no_new_reviews = 0
  /\ clicked_after_end = FALSE
  /\ fed = {}
  /\ rounds = 0
  /\ aborted = FALSE
  /\ result = << >>
  /\ path = "none"
  /\ outcome = "none"

max_threads == 2
Threads == 1..max_threads
NoFile == [file |-> FALSE]
IdleWorker ==
  [pc |-> "idle", keyword |-> "", started_with |-> "none", product_urls |-> << >>,
   i |-> 0, scraped_products |-> << >>, calls |-> 0, last_outcome |-> "none",
   reviews_started |-> FALSE, session |-> 0]

KeywordIdle ==
  /\ main_pc = "idle"
  /\ interrupted = FALSE
  /\ work_queue = << >>
  /\ thread_driver = [t \in Threads |-> "none"]
  /\ worker = [t \in Threads |-> IdleWorker]
  /\ futures = << >>
  /\ collected = {}
  /\ saved_data = NoFile

(* Names save_data is given or makes up from the clock. *)
OutputFiles == {"out1", "out2"}

StoreIdle ==
  /\ run_pc = "idle"
  /\ run_keyword = ""
  /\ scraped_products = << >>
  /\ scraped_data = << >>
  /\ disk = [f \in OutputFiles |-> NoFile]
  /\ filename = ""
  /\ last_saved = None

InfoIdle ==
  /\ info_pc = "idle"
  /\ soup = None
  /\ script_idx = 0
  /\ product_data = None
  /\ safe_call = None
  /\ html_consulted = "no"
  /\ product_info = None

NavIdle ==
  /\ nav_pc = "idle"
  /\ nav_left = 0
  /\ nav_clicks = 0
  /\ undelayed_get = FALSE
  /\ get_since_delay = FALSE
  /\ navigated = {}
  /\ unpaced = FALSE

AggIdle ==
  /\ agg_pc = "idle"
  /\ agg_calls = 0
  /\ agg_pending = 0
  /\ call_products = << >>
  /\ scrape_metadata = [total_products |-> 0, total_reviews |-> 0]
  /\ data_products = << >>

outsideReview == <<searchVars, keywordVars, storeVars, infoVars, navVars, aggVars>>
OutsideReviewIdle == SearchIdle /\ KeywordIdle /\ StoreIdle /\ InfoIdle /\ NavIdle /\ AggIdle
outsideSearch == <<reviewVars, keywordVars, storeVars, infoVars, navVars, aggVars>>
OutsideSearchIdle == ReviewIdle /\ KeywordIdle /\ StoreIdle /\ InfoIdle /\ NavIdle /\ AggIdle
outsideKeyword == <<reviewVars, searchVars, storeVars, infoVars, navVars, aggVars>>
OutsideKeywordIdle == ReviewIdle /\ SearchIdle /\ StoreIdle /\ InfoIdle /\ NavIdle /\ AggIdle
outsideStore == <<reviewVars, searchVars, keywordVars, infoVars, navVars, aggVars>>
OutsideStoreIdle == ReviewIdle /\ SearchIdle /\ KeywordIdle /\ InfoIdle /\ NavIdle /\ AggIdle
outsideInfo == <<reviewVars, searchVars, keywordVars, storeVars, navVars, aggVars>>
OutsideInfoIdle == ReviewIdle /\ SearchIdle /\ KeywordIdle /\ StoreIdle /\ NavIdle /\ AggIdle
outsideNav == <<reviewVars, searchVars, keywordVars, storeVars, infoVars, aggVars>>
OutsideNavIdle == ReviewIdle /\ SearchIdle /\ KeywordIdle /\ StoreIdle /\ InfoIdle /\ AggIdle
outsideAgg == <<reviewVars, searchVars, keywordVars, storeVars, infoVars, navVars>>
OutsideAggIdle == ReviewIdle /\ SearchIdle /\ KeywordIdle /\ StoreIdle /\ InfoIdle /\ NavIdle

(* ---------------- the reviews page served by the renderer ------------- *)
(* A review element of the DOM, reduced to what the parser's extraction    *)
(* methods find in it: the first username candidate, the number next to    *)
(* the star icon and the number matched by the text patterns (tenths, 0    *)
(* when absent), the title and content candidates and the date.            *)
Elem(name, star, textRating, title, content, date) ==
  [name |-> name, star |-> star, textRating |-> textRating,
   title |-> title, content |-> content, date |-> date]

LongBody == Repeat("x", IdContentLen)
BodyC == <<"v","e","r","y"," ","n","i","c","e"," ","s","h","a","d","e">>
Date1 == <<"1","2","/","0","1","/","2","0","2","4">>
Date2 == <<"1","3","/","0","2","/","2","0","2","4">>
Asha == <<"A","s","h","a">>
NoText == << >>

SpecialElems ==
  << Elem(Asha, 50, 0, NoText, LongBody \o <<"p">>, Date1),
     Elem(Asha, 50, 0, NoText, LongBody \o <<"q">>, Date1),
     Elem(Asha, 50, 0, NoText, LongBody \o <<"p">>, Date2),
     Elem(<<"a","b","_","1">>, 20, 0, NoText, BodyC, Date1),
     Elem(<<"a","b">>, 10, 0, NoText, <<"2","_">> \o BodyC, Date2),
     Elem(NoText, 40, 0, NoText, BodyC, Date1),
     Elem(<<"R","i","a">>, 5, 0, NoText, BodyC, Date1),
     Elem(<<"R","i","a">>, 0, 0, NoText, BodyC, Date1),
     Elem(<<"M","e","g">>, 30, 0, NoText, NoText, Date1),
     Elem(<<"M","e","g">>, 0, 30, <<"\"","L","o","v","e"," ","i","t","\"">>, <<"o","k">>, Date1),
     Elem(<<"Z","o","e">>, 90, 0, NoText, BodyC, Date2) >>

GenericElem(i) ==
  Elem(<<"u","s","r">>, ((i % 5) + 1) * 10, 0, NoText,
       <<"g","o","o","d"," ","p","r","o","d","u","c","t"," ">> \o IntToStr(i),
       Date1)

Feed ==
  [i \in 1..FeedLen |->
     IF i <= Len(SpecialElems) THEN SpecialElems[i] ELSE GenericElem(i)]

(* ---------------- parsers ---------------- *)
(* str.strip('"') of line 2286: every leading and trailing quote goes. *)
RECURSIVE StripQuotes(_)
StripQuotes(s) ==
  IF Len(s) > 0 /\ s[1] = "\""  THEN StripQuotes(Tail(s))
  ELSE IF Len(s) > 0 /\ s[Len(s)] = "\"" THEN StripQuotes(SubSeq(s, 1, Len(s) - 1))
  ELSE s

Review(username, rating, title, content, date) ==
  [username |-> username, rating |-> rating, title |-> title,
   content |-> content, date |-> date]

(* Lines 2221-2385. The "Read More" clean-up of line 2310 and the fields    *)
(* that no check reads (helpful count, images) are left out.                *)
_parse_review_from_reviews_page_semantic(el) ==
  LET username == IF Len(el.name) > 1 /\ Len(el.name) < 50
                  THEN el.name ELSE Anonymous
      starred  == IF el.star > 50 THEN 50 ELSE el.star
      rating   == IF starred = 0 THEN el.textRating ELSE starred
      title    == IF Len(el.title) > 3 THEN StripQuotes(el.title) ELSE NoText
      content  == IF Len(el.content) > 10 THEN el.content ELSE NoText
  IN  IF Len(username) > 0 /\ (Len(content) > 0 \/ Len(title) > 0) /\ rating > 0
      THEN Review(username, rating \div 10, title, content, el.date)
      ELSE None

(* A reference to the Review parsed from element k of a page. *)
Ref(src, page, k) == [src |-> src, page |-> page, k |-> k]

ParsedFeed ==
  [k \in 1..FeedLen |-> _parse_review_from_reviews_page_semantic(Feed[k])]

(* Lines 2207-2210: the first 50 elements are parsed, None is dropped.      *)
_extract_reviews_from_current_reviews_page_driver(pageSourceOk, h) ==
  IF pageSourceOk
  THEN LET review_elements == [k \in 1..Min(h, PageParseLimit) |-> Ref("page", 0, k)]
       IN  SelectSeq(review_elements, LAMBDA e : ParsedFeed[e.k] # None)
  ELSE << >>

(* ---------------- the accumulator of the scroll loop ---------------- *)
review_identifier(r) ==
  r.username \o <<"_">> \o IntToStr(r.rating) \o <<"_">>
             \o Take(r.content, IdContentLen)

FeedIdentifier ==
  [k \in 1..FeedLen |->
     IF ParsedFeed[k] = None THEN << >> ELSE review_identifier(ParsedFeed[k])]

(* The accumulator without seen_reviews.add (line 2031). *)
RECURSIVE AccumulateFrom_NoSeenAdd(_, _, _, _)
AccumulateFrom_NoSeenAdd(batch, i, revs, seen) ==
  IF i > Len(batch) THEN [reviews |-> revs, seen |-> seen]
  ELSE LET id == FeedIdentifier[batch[i].k]
       IN  IF id \notin seen
           THEN AccumulateFrom_NoSeenAdd(batch, i + 1, Append(revs, batch[i]), seen)
           ELSE AccumulateFrom_NoSeenAdd(batch, i + 1, revs, seen)

(* The accumulator with reviews.insert(0, review) for reviews.append. *)
RECURSIVE AccumulateFrom_Prepend(_, _, _, _)
AccumulateFrom_Prepend(batch, i, revs, seen) ==
  IF i > Len(batch) THEN [reviews |-> revs, seen |-> seen]
  ELSE LET id == FeedIdentifier[batch[i].k]
       IN  IF id \notin seen
           THEN AccumulateFrom_Prepend(batch, i + 1, <<batch[i]>> \o revs, seen \cup {id})
           ELSE AccumulateFrom_Prepend(batch, i + 1, revs, seen)

(* Lines 2027-2033. *)
RECURSIVE AccumulateFrom(_, _, _, _)
AccumulateFrom(batch, i, revs, seen) ==
  IF i > Len(batch) THEN [reviews |-> revs, seen |-> seen]
  ELSE LET id == FeedIdentifier[batch[i].k]
       IN  IF id \notin seen
           THEN AccumulateFrom(batch, i + 1, Append(revs, batch[i]), seen \cup {id})
           ELSE AccumulateFrom(batch, i + 1, revs, seen)

(* The counter without its reset. *)
no_new_counter_no_reset(c, new_reviews_count) ==
  IF new_reviews_count = 0 THEN c + 1 ELSE c

(* Lines 2037-2040. *)
no_new_counter(c, new_reviews_count) ==
  IF new_reviews_count = 0 THEN c + 1 ELSE 0

(* The while test without the scroll_attempts budget. *)
while_cond_no_attempt_cap(a, c) == c < max_consecutive_no_new

(* Line 2022. *)
while_cond(a, c) == a < max_scroll_attempts /\ c < max_consecutive_no_new

(* Line 2084. *)
next_attempt(a) == a + 1


(* ---------------- the product page used by the fallback ---------------- *)
(* One entry of the "latestReviews" JSON array; hasName is FALSE when the   *)
(* entry has no 'name' key.                                                 *)
JsonReview(hasName, name, rating, title, description, createdOn) ==
  [hasName |-> hasName, name |-> name, rating |-> rating, title |-> title,
   description |-> description, createdOn |-> createdOn]

(* A review element of the product page, reduced to the texts the selector  *)
(* lists of _parse_review match (empty when none matches); the rating text  *)
(* is a whole number here.                                                  *)
HtmlElem(name, rating, title, content, date) ==
  [name |-> name, rating |-> rating, title |-> title, content |-> content,
   date |-> date]

ProductPage(json, html) == [json |-> json, html |-> html]

FallbackPages ==
  << ProductPage(<< JsonReview(TRUE, Asha, 4, NoText, BodyC, Date1),
                    JsonReview(FALSE, NoText, 0, NoText, NoText, Date2) >>, << >>),
     ProductPage(<< >>, << HtmlElem(Asha, 5, NoText, BodyC, Date1),
                           HtmlElem(NoText, 0, NoText, NoText, NoText) >>),
     ProductPage(<< >>, << >>),
     ProductPage([i \in 1..(FallbackLimit + 1) |->
                    JsonReview(TRUE, Asha, 4, NoText, BodyC, Date1)], << >>) >>

_parse_review_from_json(d) ==
  Review(IF d.hasName THEN d.name ELSE Anonymous, d.rating, d.title,
         d.description, d.createdOn)

_parse_review(el) ==
  Review(IF Len(el.name) > 0 THEN el.name ELSE Anonymous, el.rating,
         el.title, el.content, el.date)

(* Lines 2502-2507: every entry of latestReviews is parsed and kept.        *)
_extract_reviews_from_json(p) ==
  [i \in 1..Len(FallbackPages[p].json) |-> Ref("json", p, i)]

(* Lines 2604-2612: the first 20 elements are parsed and kept.              *)
_extract_reviews_from_html(p) ==
  [i \in 1..Min(Len(FallbackPages[p].html), HtmlParseLimit) |-> Ref("html", p, i)]

(* The fallback without the slice of line 2486. *)
_extract_reviews_from_current_page_driver_uncut(pageSourceOk, p) ==
  IF ~pageSourceOk THEN << >>
  ELSE LET fromJson == _extract_reviews_from_json(p)
       IN  IF fromJson # << >> THEN fromJson ELSE _extract_reviews_from_html(p)

(* Lines 2454-2486. *)
_extract_reviews_from_current_page_driver(pageSourceOk, p) ==
  IF ~pageSourceOk THEN << >>
  ELSE LET fromJson == _extract_reviews_from_json(p)
           found == IF fromJson # << >> THEN fromJson
                    ELSE _extract_reviews_from_html(p)
       IN  Take(found, FallbackLimit)

(* The fields of the Review object behind a reference. *)
ReviewOf(ref) ==
  CASE ref.src = "page" -> ParsedFeed[ref.k]
    [] ref.src = "json" -> _parse_review_from_json(FallbackPages[ref.page].json[ref.k])
    [] ref.src = "html" -> _parse_review(FallbackPages[ref.page].html[ref.k])

(* ---------------- initial state ---------------- *)
Init ==
  /\ pc = "start"
  /\ session = "alive"
  /\ hi = 0
  /\ endIndicator = FALSE
  /\ reviews = << >>
  /\ seen_reviews = {}
  /\ scroll_attempts = 0
  /\ consecutive_no_new_reviews = 0
  /\ clicked_after_end = FALSE
  /\ fed = {}
  /\ rounds = 0
  /\ aborted = FALSE
  /\ result = << >>
  /\ path = "none"
  /\ outcome = "none"
  /\ OutsideReviewIdle

loopVars == <<reviews, seen_reviews, scroll_attempts,
              consecutive_no_new_reviews, clicked_after_end, fed, rounds, aborted>>

(* ---------------- _extract_reviews_with_driver ---------------- *)
(* Line 1829: _extract_product_and_sku_ids returns a product id or None and *)
(* never raises; without an id the current-page fallback runs (line 1877).  *)
ExtractIds ==
  /\ pc = "start"
  /\ \E idFound \in BOOLEAN :
       pc' = IF idFound THEN "navigate" ELSE "fallback"
  /\ UNCHANGED <<session, hi, endIndicator, loopVars, result, path, outcome>>
  /\ UNCHANGED outsideReview

(* Lines 1848-1863: driver.get(reviews_url) returns and the wait finds a    *)
(* review element; the loop is entered.                                     *)
NavigateOk ==
  /\ pc = "navigate"
  /\ session = "alive"
  /\ \E h \in InitialLoads, e \in BOOLEAN :
       /\ hi' = h
       /\ endIndicator' = e
  /\ pc' = "while"
  /\ UNCHANGED <<session, loopVars, result, path, outcome>>
  /\ UNCHANGED outsideReview

(* Line 1864: the wait times out.                                           *)
WaitTimeout ==
  /\ pc = "navigate"
  /\ session = "alive"
  /\ pc' = "fallback"
  /\ UNCHANGED <<session, hi, endIndicator, loopVars, result, path, outcome>>
  /\ UNCHANGED outsideReview

(* driver.get or the wait raises; the except of line 1879 falls back.       *)
NavigateRaises ==
  /\ pc = "navigate"
  /\ \E dies \in BOOLEAN : session' = IF dies THEN "dead" ELSE session
  /\ pc' = "fallback"
  /\ UNCHANGED <<hi, endIndicator, loopVars, result, path, outcome>>
  /\ UNCHANGED outsideReview

(* Lines 1869-1877 after the loop has returned: a non-empty list is the     *)
(* result of the product (line 1067 stores it, line 1072 returns the        *)
(* record); an empty one leads to the fallback.                             *)
AfterLoop(revs) ==
  IF revs # << >>
  THEN /\ result' = revs
       /\ path' = "scroll"
       /\ outcome' = "record"
       /\ pc' = "done"
  ELSE /\ pc' = "fallback"
       /\ UNCHANGED <<result, path, outcome>>

(* ---------------- _scrape_reviews_with_infinite_scroll_driver ----------- *)
(* Lines 2022-2040: the while test holds, the current page is extracted and *)
(* its reviews are fed to the accumulator. The extraction catches every     *)
(* exception itself (line 2212) and then returns [].                        *)
ExtractRound ==
  /\ pc = "while"
  /\ while_cond(scroll_attempts, consecutive_no_new_reviews)
  /\ \E pageSourceOk \in (IF session = "alive" THEN BOOLEAN ELSE {FALSE}),
        dies \in BOOLEAN :
       /\ (dies => ~pageSourceOk)
       /\ LET current_reviews ==
                _extract_reviews_from_current_reviews_page_driver(pageSourceOk, hi)
              acc == AccumulateFrom(current_reviews, 1, reviews, seen_reviews)
              new_reviews_count == Len(acc.reviews) - Len(reviews)
          IN  /\ reviews' = acc.reviews
              /\ seen_reviews' = acc.seen
              /\ consecutive_no_new_reviews' =
                   no_new_counter(consecutive_no_new_reviews, new_reviews_count)
              /\ fed' = fed \cup {current_reviews[i] : i \in 1..Len(current_reviews)}
       /\ session' = IF dies THEN "dead" ELSE session
  /\ rounds' = rounds + 1
  /\ pc' = "reveal"
  /\ UNCHANGED <<hi, endIndicator, scroll_attempts, clicked_after_end, aborted,
                 result, path, outcome>>
  /\ UNCHANGED outsideReview

(* What the page may show after being asked for more. *)
Grown(h, growth) ==
  IF endIndicator THEN {h} ELSE {Min(h + g, FeedLen) : g \in growth}

(* Line 2043: execute_script (the scroll) raises. The call is outside the   *)
(* inner try, so the except of line 2089 ends the loop and line 2093        *)
(* returns what was accumulated.                                            *)
ScrollRaises ==
  /\ pc = "reveal"
  /\ \E dies \in (IF session = "alive" THEN BOOLEAN ELSE {TRUE}) :
       session' = IF dies THEN "dead" ELSE session
  /\ aborted' = TRUE
  /\ AfterLoop(reviews)
  /\ UNCHANGED <<hi, endIndicator, reviews, seen_reviews, scroll_attempts,
                 consecutive_no_new_reviews, clicked_after_end, fed, rounds>>
  /\ UNCHANGED outsideReview

(* Lines 2043-2084: the scroll succeeds and no load-more control is         *)
(* displayed and enabled.                                                   *)
RevealNoButton ==
  /\ pc = "reveal"
  /\ session = "alive"
  /\ \E h \in Grown(hi, ScrollGrowth) : hi' = h
  /\ UNCHANGED clicked_after_end
  /\ scroll_attempts' = next_attempt(scroll_attempts)
  /\ pc' = "while"
  /\ UNCHANGED <<session, endIndicator, reviews, seen_reviews,
                 consecutive_no_new_reviews, fed, rounds, aborted,
                 result, path, outcome>>
  /\ UNCHANGED outsideReview

(* Lines 2043-2084: the scroll succeeds and a load-more control is clicked  *)
(* (line 2072).                                                             *)
RevealClick ==
  /\ pc = "reveal"
  /\ session = "alive"
  /\ \E h \in Grown(hi, ScrollGrowth) : \E h2 \in Grown(h, ClickGrowth) : hi' = h2
  /\ clicked_after_end' = (clicked_after_end \/ endIndicator)
  /\ scroll_attempts' = next_attempt(scroll_attempts)
  /\ pc' = "while"
  /\ UNCHANGED <<session, endIndicator, reviews, seen_reviews,
                 consecutive_no_new_reviews, fed, rounds, aborted,
                 result, path, outcome>>
  /\ UNCHANGED outsideReview

(* Lines 2057-2082: the scroll succeeds; finding or clicking the control    *)
(* raises for every selector, the inner except swallows it.                 *)
RevealClickRaises ==
  /\ pc = "reveal"
  /\ session = "alive"
  /\ \E h \in Grown(hi, ScrollGrowth) : hi' = h
  /\ \E dies \in BOOLEAN : session' = IF dies THEN "dead" ELSE session
  /\ UNCHANGED clicked_after_end
  /\ scroll_attempts' = next_attempt(scroll_attempts)
  /\ pc' = "while"
  /\ UNCHANGED <<endIndicator, reviews, seen_reviews,
                 consecutive_no_new_reviews, fed, rounds, aborted,
                 result, path, outcome>>
  /\ UNCHANGED outsideReview

(* Line 2022: the while test fails; line 2093 returns the list.             *)
WhileExit ==
  /\ pc = "while"
  /\ ~while_cond(scroll_attempts, consecutive_no_new_reviews)
  /\ AfterLoop(reviews)
  /\ UNCHANGED <<session, hi, endIndicator, loopVars>>
  /\ UNCHANGED outsideReview

(* Lines 1866, 1877, 1881: _extract_reviews_from_current_page_driver; its   *)
(* result goes into the record that line 1072 returns.                      *)
Fallback ==
  /\ pc = "fallback"
  /\ \E pageSourceOk \in (IF session = "alive" THEN BOOLEAN ELSE {FALSE}),
        p \in DOMAIN FallbackPages :
       result' = _extract_reviews_from_current_page_driver(pageSourceOk, p)
  /\ path' = "fallback"
  /\ outcome' = "record"
  /\ pc' = "done"
  /\ UNCHANGED <<session, hi, endIndicator, loopVars>>
  /\ UNCHANGED outsideReview

Next ==
  \/ ExtractIds \/ NavigateOk \/ WaitTimeout \/ NavigateRaises
  \/ ExtractRound \/ ScrollRaises \/ RevealNoButton \/ RevealClick
  \/ RevealClickRaises \/ WhileExit \/ Fallback

Spec == Init /\ [][Next]_vars

(* The renderer's calls return and the worker thread keeps running. *)
FairSpec == Spec /\ WF_vars(Next)

(* ======================= properties ======================= *)
FedIdentifiers == {FeedIdentifier[r.k] : r \in fed}

C2_Terminates ==
  /\ <>(pc = "done")
  /\ [](rounds <= max_scroll_attempts)

(* The loop ended on the attempts budget while new reviews still arrived.   *)
C2_Witness ==
  /\ pc = "done"
  /\ path = "scroll"
  /\ ~aborted
  /\ scroll_attempts = max_scroll_attempts
  /\ consecutive_no_new_reviews < max_consecutive_no_new

LoopReturned == pc \in {"fallback", "done"} /\ rounds > 0

(* C3: when every round of a finished loop yielded zero new reviews, the    *)
(* loop executed exactly max_consecutive_no_new rounds.                     *)
C3_StagnationStop ==
  (LoopReturned /\ reviews = << >>) => rounds = max_consecutive_no_new

(* C4: when the page shows its "no more reviews" marker from round 1 on,    *)
(* no round is run and no load-more control is clicked.                     *)
C4_ExplicitEndStops ==
  endIndicator => (rounds = 0 /\ ~clicked_after_end)

(* C5: the reviews returned for one product never number more than          *)
(* max_reviews_per_product.                                                 *)
C5_ReviewCap == Len(result) <= max_reviews_per_product

Accepted(r) ==
  /\ r.rating > 0
  /\ (Len(r.content) > 0 \/ Len(r.title) > 0)
  /\ r.username # Anonymous

(* C6: every accumulated or returned review has a positive rating, a body   *)
(* or a title, and an author other than "Anonymous".                        *)
C6_AcceptanceInvariant ==
  /\ \A i \in DOMAIN reviews : Accepted(ReviewOf(reviews[i]))
  /\ \A i \in DOMAIN result : Accepted(ReviewOf(result[i]))

(* The fingerprint of the data model: (author, rating, body[:50], date). *)
Fingerprint(r) == <<r.username, r.rating, Take(r.content, IdContentLen), r.date>>

(* C7: a fed review is dropped only when a review with the same fingerprint *)
(* tuple is retained.                                                       *)
C7_FingerprintDistinct ==
  \A r \in fed : \E i \in DOMAIN reviews :
     Fingerprint(ReviewOf(reviews[i])) = Fingerprint(ReviewOf(r))

(* C8: every round keeps the accumulated list as a prefix, appends only     *)
(* reviews whose identifier was never fed before, in page order, and the    *)
(* list is returned in that order.                                          *)
C8_FirstSeenOrder ==
  [][ /\ Len(reviews') >= Len(reviews)
      /\ SubSeq(reviews', 1, Len(reviews)) = reviews
      /\ \A i \in (Len(reviews) + 1)..Len(reviews') :
           /\ FeedIdentifier[reviews'[i].k] \notin FedIdentifiers
           /\ \A j \in (Len(reviews) + 1)..(i - 1) : reviews'[j].k < reviews'[i].k
      /\ (path' = "scroll" => result' = reviews) ]_vars

(* A list built up over several rounds was returned. *)
C8_Witness ==
  /\ pc = "done"
  /\ path = "scroll"
  /\ rounds >= 4
  /\ Len(result) >= 12

(* C9: no exception raised inside a round ends the loop. *)
C9_RoundFailureAbsorbed == ~aborted

(* C10: when the session died inside the scroll loop, the product pipeline  *)
(* ends by raising to its caller.                                           *)
C10_SessionDeathPropagates ==
  (pc = "done" /\ session = "dead" /\ rounds > 0) => outcome = "raised"

(* C26: a round of the loop sets consecutive_no_new_reviews to 0 when it    *)
(* appended a review and to its value plus 1 when it appended none; no     *)
(* other step changes it, and it is 0 before the first round.              *)
C26_StagnationCounter ==
  /\ [](rounds = 0 => consecutive_no_new_reviews = 0)
  /\ [][IF rounds' = rounds + 1
        THEN consecutive_no_new_reviews' =
               (IF Len(reviews') > Len(reviews) THEN 0
                ELSE consecutive_no_new_reviews + 1)
        ELSE consecutive_no_new_reviews' = consecutive_no_new_reviews]_vars

C26_Witness ==
  /\ rounds >= 4
  /\ consecutive_no_new_reviews = 2
  /\ Len(reviews) >= 2
  /\ pc = "reveal"

(* A reveal step in which the click on a load-more control made the page    *)
(* show more reviews.                                                       *)
ClickReveals ==
  /\ pc = "reveal"
  /\ pc' = "while"
  /\ \E h \in Grown(hi, ScrollGrowth) :
       \E h2 \in Grown(h, ClickGrowth) : h2 > h /\ hi' = h2

(* C27: a click that reveals reviews is followed by another round of the    *)
(* loop, whose extraction takes them up.                                    *)
C27_RevealThenExtract ==
  [][ClickReveals => while_cond(scroll_attempts', consecutive_no_new_reviews')]_vars


(* C30: a non-empty list from the scroll loop is returned as it is; the     *)
(* current-page fallback gives the result only when the loop was not run    *)
(* or returned nothing, and its result has at most 50 reviews.              *)
C30_ReviewPathSelection ==
  /\ path = "scroll" => (result = reviews /\ reviews # << >>)
  /\ (pc = "done" /\ reviews # << >>) => path = "scroll"
  /\ path = "fallback" => (reviews = << >> /\ Len(result) <= 50)

C30_Witness ==
  /\ pc = "done"
  /\ path = "fallback"
  /\ rounds > 0
  /\ Len(result) = 50

(* ================= _search_products_with_driver ================= *)
MaxProductsChoices == {1, 3}
MaxPageNum == 4

(* A product card of the result page: what get_attribute('href') gives      *)
(* (line 868), None when the attribute is missing.                          *)
Card(href) == [has |-> TRUE, href |-> href]
NoHrefCard == [has |-> FALSE, href |-> << >>]

P1 == <<"/","p","/","1">>
P2 == <<"/","p","/","2">>
P3 == <<"/","p","/","3">>
P4 == <<"/","p","/","4">>
P1a == <<"/","p","/","1","?","a">>
P1b == <<"/","p","/","1","?","b">>
B9 == <<"/","b","/","9">>

(* Result pages the site may show: two pages of two products, the first of  *)
(* them in another order, a page whose links carry a query string and       *)
(* repeat, and a page without products.                                     *)
SearchPages ==
  { <<Card(P1), Card(P2)>>,
    <<Card(P2), Card(P1)>>,
    <<Card(P3), Card(P4)>>,
    <<Card(P1a), Card(P1a), Card(B9), NoHrefCard, Card(P1b)>>,
    << >> }

(* `sub in s` of line 869. *)
HasSubSeq(s, sub) ==
  \E i \in 1..(Len(s) - Len(sub) + 1) : SubSeq(s, i, i + Len(sub) - 1) = sub

(* `x in list` of line 869. *)
InSeq(x, list) == \E i \in DOMAIN list : list[i] = x

(* product_url.split('?')[0] of line 872. *)
BeforeFirst(s, ch) ==
  IF \E i \in DOMAIN s : s[i] = ch
  THEN SubSeq(s, 1, (CHOOSE i \in DOMAIN s : s[i] = ch /\ \A j \in 1..(i - 1) : s[j] # ch) - 1)
  ELSE s

(* Lines 869-876: the test made on a card's href and the URL appended.      *)
AcceptsHref(href, urls) ==
  href # << >> /\ HasSubSeq(href, <<"/","p","/">>) /\ ~InSeq(href, urls)

CleanedUrl(href) ==
  IF InSeq("?", href) THEN BeforeFirst(href, "?") ELSE href

(* Lines 863-878: the loop over the cards of one page. *)
RECURSIVE CollectCards(_, _, _, _)
CollectCards(cards, i, urls, maxp) ==
  IF i > Len(cards) \/ Len(urls) >= maxp THEN urls
  ELSE CollectCards(cards, i + 1,
         IF cards[i].has /\ AcceptsHref(cards[i].href, urls)
         THEN Append(urls, CleanedUrl(cards[i].href)) ELSE urls,
         maxp)

SearchInit ==
  /\ search_pc = "start"
  /\ search_driver \in {"live", "dead"}
  /\ max_products \in MaxProductsChoices
  /\ product_urls = << >>
  /\ product_cards = << >>
  /\ page_num = 0
  /\ clicked_at_cap = FALSE
  /\ search_result = << >>
  /\ OutsideSearchIdle

(* Line 919. *)
SearchReturn(urls) ==
  /\ search_result' = Take(urls, max_products)
  /\ search_pc' = "done"

(* Lines 800-807: driver.get(search_url) returns and a result page shows.   *)
SearchNavigate ==
  /\ search_pc = "start"
  /\ search_driver = "live"
  /\ \E p \in SearchPages : product_cards' = p
  /\ page_num' = 1
  /\ search_pc' = "while"
  /\ UNCHANGED <<search_driver, max_products, product_urls, clicked_at_cap,
                 search_result>>
  /\ UNCHANGED outsideSearch

(* driver.get raises (always so with a dead session); the except of line    *)
(* 915 logs and line 919 returns the empty list.                            *)
SearchNavigateRaises ==
  /\ search_pc = "start"
  /\ \E dies \in BOOLEAN : search_driver' = IF dies THEN "dead" ELSE search_driver
  /\ SearchReturn(product_urls)
  /\ UNCHANGED <<max_products, product_urls, product_cards, page_num, clicked_at_cap>>
  /\ UNCHANGED outsideSearch

(* Lines 809-834 and 885-887: the while test holds and the page shows no    *)
(* product element (or no product link): break.                             *)
SearchNoProducts ==
  /\ search_pc = "while"
  /\ search_driver = "live"
  /\ Len(product_urls) < max_products
  /\ product_cards = << >>
  /\ SearchReturn(product_urls)
  /\ UNCHANGED <<search_driver, max_products, product_urls, product_cards, page_num,
                 clicked_at_cap>>
  /\ UNCHANGED outsideSearch

(* Lines 809-905: one iteration that ends with a click on the next-page     *)
(* control (line 899). page_num only feeds the log lines; it is counted up  *)
(* to MaxPageNum.                                                           *)
SearchPageNext ==
  /\ search_pc = "while"
  /\ search_driver = "live"
  /\ Len(product_urls) < max_products
  /\ product_cards # << >>
  /\ product_urls' = CollectCards(product_cards, 1, product_urls, max_products)
  /\ clicked_at_cap' = (clicked_at_cap \/ Len(product_urls') >= max_products)
  /\ \E p \in SearchPages : product_cards' = p
  /\ page_num' = Min(page_num + 1, MaxPageNum)
  /\ UNCHANGED <<search_pc, search_driver, max_products, search_result>>
  /\ UNCHANGED outsideSearch

(* Lines 809-909: one iteration that finds no next-page control that is     *)
(* enabled and displayed: break.                                            *)
SearchPageLast ==
  /\ search_pc = "while"
  /\ search_driver = "live"
  /\ Len(product_urls) < max_products
  /\ product_cards # << >>
  /\ product_urls' = CollectCards(product_cards, 1, product_urls, max_products)
  /\ SearchReturn(product_urls')
  /\ UNCHANGED <<search_driver, max_products, product_cards, page_num, clicked_at_cap>>
  /\ UNCHANGED outsideSearch

(* An iteration in which a driver call raises: the wait (not a timeout:     *)
(* line 915 catches it), or the next-page search after the cards were read *)
(* (line 911). Either way the loop ends and line 919 returns.               *)
SearchPageRaises ==
  /\ search_pc = "while"
  /\ Len(product_urls) < max_products
  /\ \E cardsRead \in (IF search_driver = "live" /\ product_cards # << >> THEN BOOLEAN ELSE {FALSE}),
        dies \in (IF search_driver = "live" THEN BOOLEAN ELSE {TRUE}) :
       /\ product_urls' = IF cardsRead
                          THEN CollectCards(product_cards, 1, product_urls, max_products)
                          ELSE product_urls
       /\ search_driver' = IF dies THEN "dead" ELSE search_driver
  /\ SearchReturn(product_urls')
  /\ UNCHANGED <<max_products, product_cards, page_num, clicked_at_cap>>
  /\ UNCHANGED outsideSearch

(* Line 809: the while test fails. *)
SearchWhileExit ==
  /\ search_pc = "while"
  /\ Len(product_urls) >= max_products
  /\ SearchReturn(product_urls)
  /\ UNCHANGED <<search_driver, max_products, product_urls, product_cards, page_num,
                 clicked_at_cap>>
  /\ UNCHANGED outsideSearch

SearchNext ==
  \/ SearchNavigate \/ SearchNavigateRaises \/ SearchNoProducts
  \/ SearchPageNext \/ SearchPageLast \/ SearchPageRaises \/ SearchWhileExit

SearchSpec == SearchInit /\ [][SearchNext]_vars

(* The driver's calls return and the worker thread keeps running. *)
SearchFairSpec == SearchSpec /\ WF_vars(SearchNext)

(* C12: the search returns at most max_products URLs and makes no           *)
(* next-page click once max_products URLs are collected.                    *)
C12_SearchCap ==
  /\ Len(search_result) <= max_products
  /\ ~clicked_at_cap

(* C13: the search terminates whatever the site shows. *)
C13_SearchTerminates == <>(search_pc = "done")

(* C28: the list the search returns holds no URL twice. *)
C28_NoDuplicateUrls ==
  \A i, j \in DOMAIN search_result :
    search_result[i] = search_result[j] => i = j

(* ============ scrape_keywords, _scrape_keyword_thread, main ============ *)
Keywords == <<"k1", "k2", "k3">>
MaxProductsPerKeyword == 2

(* What the site shows to one search: the result pages in the order the     *)
(* next-page control leads through them; the last one has no such control.  *)
SearchScripts ==
  { << >>,
    << <<Card(P1a), Card(P1a), Card(B9), NoHrefCard, Card(P1b)>> >>,
    << <<Card(P3)>>, <<Card(P3), Card(P4)>> >> }

(* _search_products_with_driver run to its return on such a site (lines     *)
(* 809-919): the while test, the break on a page without products, the      *)
(* cards of the page, the next page.                                        *)
RECURSIVE RunSearch(_, _, _, _)
RunSearch(script, k, urls, maxp) ==
  IF Len(urls) >= maxp \/ k > Len(script) THEN Take(urls, maxp)
  ELSE IF script[k] = << >> THEN Take(urls, maxp)
  ELSE RunSearch(script, k + 1, CollectCards(script[k], 1, urls, maxp), maxp)

(* What _scrape_product_details_with_driver does with a product page:       *)
(* "ok" the base extraction gives a ProductInfo (line 1046), "notfound" it  *)
(* gives None (line 1048), "fails" driver.get, the 15 s wait or an          *)
(* extraction raises (line 1074).                                           *)
PageOutcomes == {"ok", "notfound", "fails"}

(* Line 1067: review collection is started. *)
starts_reviews(o) == o = "ok"

(* Lines 1072, 1050, 1076 and 765-766: the record appended for the URL.     *)
appended_unchecked(o, i, url) ==
  IF o \in {"ok", "notfound"} THEN <<[i |-> i, url |-> url]>> ELSE << >>

appended(o, i, url) ==
  IF o = "ok" THEN <<[i |-> i, url |-> url]>> ELSE << >>

(* Lines 762 and 774-776: the for loop goes on to the next URL, also after  *)
(* a failure.                                                               *)
next_url_abort(i, n, o) == IF o = "fails" THEN n + 1 ELSE i + 1

next_url(i, n, o) == i + 1

KeywordInit ==
  /\ main_pc = "scrape_keywords"
  /\ interrupted = FALSE
  /\ work_queue = Keywords
  /\ thread_driver = [t \in Threads |-> "none"]
  /\ worker = [t \in Threads |-> IdleWorker]
  /\ futures = [k \in DOMAIN Keywords |-> [done |-> FALSE, result |-> << >>]]
  /\ collected = {}
  /\ saved_data = NoFile
  /\ OutsideKeywordIdle

(* threading.local: the slot of _thread_local that code running on thread  *)
(* t reads and writes.                                                      *)
thread_local_shared(t) == 1

thread_local(t) == t

(* The main thread, which runs main and cleanup. *)
MainThread == 0

(* cleanup (lines 2935-2954) quits the driver in the slot of the thread     *)
(* that calls it. The main thread made none (self.driver, _setup_driver is  *)
(* not called on this path), and self.driver is None.                       *)
cleanup(drivers) ==
  [t \in DOMAIN drivers |-> IF t = thread_local(MainThread) THEN "none" ELSE drivers[t]]

(* A pool thread takes the next keyword (line 2848) and                     *)
(* _scrape_keyword_thread asks for the thread's driver (line 754):          *)
(* _get_thread_driver creates one only when the thread has none (line 185). *)
(* When the creation raises, the except of line 778 returns [].             *)
StartKeyword(t) ==
  /\ main_pc \in {"scrape_keywords", "shutdown"}
  /\ worker[t].pc = "idle"
  /\ work_queue # << >>
  /\ work_queue' = Tail(work_queue)
  /\ LET k == Len(Keywords) - Len(work_queue) + 1
         d == thread_local(t)
     IN
     \/ /\ thread_driver[d] = "none"
        /\ \E created \in BOOLEAN :
             IF created
             THEN /\ thread_driver' = [thread_driver EXCEPT ![d] = "live"]
                  /\ worker' = [worker EXCEPT ![t] =
                       [IdleWorker EXCEPT !.pc = "search", !.keyword = k,
                                          !.started_with = "live", !.session = d]]
                  /\ UNCHANGED futures
             ELSE /\ futures' = [futures EXCEPT ![k] = [done |-> TRUE, result |-> << >>]]
                  /\ UNCHANGED <<thread_driver, worker>>
     \/ /\ thread_driver[d] # "none"
        /\ worker' = [worker EXCEPT ![t] =
             [IdleWorker EXCEPT !.pc = "search", !.keyword = k,
                                !.started_with = thread_driver[d], !.session = d]]
        /\ UNCHANGED <<thread_driver, futures>>
  /\ UNCHANGED <<main_pc, interrupted, collected, saved_data>>
  /\ UNCHANGED outsideKeyword

(* Line 757: the search. With a dead session driver.get raises and the      *)
(* search returns [] (lines 915-919).                                       *)
WorkerSearch(t) ==
  /\ worker[t].pc = "search"
  /\ \E script \in (IF thread_driver[worker[t].session] = "live"
                     THEN SearchScripts ELSE {<< >>}),
        dies \in BOOLEAN :
       /\ worker' = [worker EXCEPT ![t].pc = "scrape", ![t].i = 1,
                       ![t].product_urls =
                          RunSearch(script, 1, << >>, MaxProductsPerKeyword)]
       /\ thread_driver' = [thread_driver EXCEPT ![worker[t].session] =
                                   IF dies THEN "dead" ELSE @]
  /\ UNCHANGED <<main_pc, interrupted, work_queue, futures, collected, saved_data>>
  /\ UNCHANGED outsideKeyword

(* Lines 762-776: one iteration of the for loop, with the whole of          *)
(* _scrape_product_details_with_driver (lines 1031-1076), which catches     *)
(* every exception and then returns None. The session may die in it; with a *)
(* dead session driver.get raises. After a base extraction that gave None   *)
(* no driver call is made, so a death shows in the next call.               *)
ScrapeProduct(t) ==
  /\ worker[t].pc = "scrape"
  /\ worker[t].i <= Len(worker[t].product_urls)
  /\ \E o \in (IF thread_driver[worker[t].session] = "live"
                THEN PageOutcomes ELSE {"fails"}),
        dies \in BOOLEAN :
       (dies => o # "notfound") /\
       LET w == worker[t]
           url == w.product_urls[w.i]
       IN  /\ worker' = [worker EXCEPT ![t] =
                [w EXCEPT !.scraped_products = w.scraped_products \o appended(o, w.i, url),
                          !.i = next_url(w.i, Len(w.product_urls), o),
                          !.calls = w.calls + 1,
                          !.last_outcome = o,
                          !.reviews_started = starts_reviews(o)]]
           /\ thread_driver' = [thread_driver EXCEPT ![worker[t].session] =
                                   IF dies THEN "dead" ELSE @]
  /\ UNCHANGED <<main_pc, interrupted, work_queue, futures, collected, saved_data>>
  /\ UNCHANGED outsideKeyword

(* Lines 770-771: the loop is over, the products are the task's result.     *)
WorkerReturn(t) ==
  /\ worker[t].pc = "scrape"
  /\ worker[t].i > Len(worker[t].product_urls)
  /\ futures' = [futures EXCEPT ![worker[t].keyword] =
                   [done |-> TRUE, result |-> worker[t].scraped_products]]
  /\ worker' = [worker EXCEPT ![t] = IdleWorker]
  /\ UNCHANGED <<main_pc, interrupted, work_queue, thread_driver, collected, saved_data>>
  /\ UNCHANGED outsideKeyword

(* Lines 2852-2861: the as_completed loop takes a finished future and       *)
(* extends all_scraped_products under the lock.                             *)
CollectFuture ==
  /\ main_pc = "scrape_keywords"
  /\ \E k \in DOMAIN futures :
       /\ futures[k].done
       /\ k \notin collected
       /\ collected' = collected \cup {k}
  /\ UNCHANGED <<main_pc, interrupted, work_queue, thread_driver, worker,
                 futures, saved_data>>
  /\ UNCHANGED outsideKeyword

(* all_scraped_products of line 2843: the results of the handled futures,   *)
(* kept by keyword.                                                         *)
all_scraped_products == [k \in collected |-> futures[k].result]

(* Lines 2867-2872 and 2978: every future is handled, scrape_keywords       *)
(* returns and save_data writes the file; line 2987 cleans up.              *)
SaveAndExit ==
  /\ main_pc = "scrape_keywords"
  /\ collected = DOMAIN Keywords
  /\ saved_data' = [file |-> TRUE, products |-> all_scraped_products]
  /\ thread_driver' = cleanup(thread_driver)
  /\ main_pc' = "exit"
  /\ UNCHANGED <<interrupted, work_queue, worker, futures, collected>>
  /\ UNCHANGED outsideKeyword

(* KeyboardInterrupt is raised in the main thread inside scrape_keywords.   *)
(* It is not an Exception, so line 2863 does not catch it; the with         *)
(* statement of line 2846 shuts the executor down and waits for the tasks.  *)
Interrupt ==
  /\ main_pc = "scrape_keywords"
  /\ main_pc' = "shutdown"
  /\ interrupted' = TRUE
  /\ UNCHANGED <<work_queue, thread_driver, worker, futures, collected, saved_data>>
  /\ UNCHANGED outsideKeyword

(* Lines 2983-2990: the tasks are over, main logs the interrupt, cleans up  *)
(* and returns.                                                             *)
InterruptedExit ==
  /\ main_pc = "shutdown"
  /\ work_queue = << >>
  /\ \A t \in Threads : worker[t].pc = "idle"
  /\ thread_driver' = cleanup(thread_driver)
  /\ main_pc' = "exit"
  /\ UNCHANGED <<interrupted, work_queue, worker, futures, collected, saved_data>>
  /\ UNCHANGED outsideKeyword

KeywordNext ==
  \/ \E t \in Threads : StartKeyword(t)
  \/ \E t \in Threads : WorkerSearch(t)
  \/ \E t \in Threads : ScrapeProduct(t)
  \/ \E t \in Threads : WorkerReturn(t)
  \/ CollectFuture \/ SaveAndExit \/ Interrupt \/ InterruptedExit

KeywordSpec == KeywordInit /\ [][KeywordNext]_vars

(* s is a prefix of t. *)
IsPrefix(s, t) == Len(s) <= Len(t) /\ SubSeq(t, 1, Len(s)) = s

(* C11: no keyword is started on a renderer session that an earlier         *)
(* keyword has left dead.                                                   *)
C11_KeywordIsolation ==
  \A t \in Threads : worker[t].pc # "idle" => worker[t].started_with # "dead"

(* C14: in the loop over a keyword's URLs every URL before the current one  *)
(* was handed to the pipeline, whatever the earlier ones did; a step of the *)
(* loop keeps the products collected so far; and the loop returns only      *)
(* after the last URL, with exactly the products collected.                 *)
C14_UrlFailureRecoverable ==
  /\ [](\A t \in Threads :
          worker[t].pc = "scrape" => worker[t].calls = worker[t].i - 1)
  /\ [][\A t \in Threads :
          /\ (worker[t].pc = "scrape" /\ worker'[t].pc = "scrape")
               => IsPrefix(worker[t].scraped_products, worker'[t].scraped_products)
          /\ (worker[t].pc = "scrape" /\ worker'[t].pc = "idle")
               => /\ worker[t].calls = Len(worker[t].product_urls)
                  /\ futures'[worker[t].keyword].result = worker[t].scraped_products
       ]_vars

C14_Witness ==
  \E t \in Threads :
    /\ worker[t].pc = "scrape"
    /\ worker[t].last_outcome = "fails"
    /\ worker[t].calls = 1
    /\ Len(worker[t].product_urls) = 2
    /\ \E u \in Threads : u # t /\ worker[u].last_outcome = "fails"
                          /\ worker[u].calls = 2
                          /\ Len(worker[u].scraped_products) = 1

(* C15: after a pipeline call whose base extraction gave None, the URL of   *)
(* that call has no record and no review collection was started for it; a   *)
(* record appended later carries the index of the call that made it.        *)
C15_NotFoundSkipped ==
  /\ [](\A t \in Threads :
          worker[t].last_outcome = "notfound"
            => /\ ~worker[t].reviews_started
               /\ \A j \in DOMAIN worker[t].scraped_products :
                    worker[t].scraped_products[j].i # worker[t].calls)
  /\ [][\A t \in Threads :
          (worker[t].pc = "scrape" /\ worker'[t].pc = "scrape")
            => \A j \in (Len(worker[t].scraped_products) + 1)
                          ..Len(worker'[t].scraped_products) :
                 /\ worker'[t].scraped_products[j].i = worker'[t].calls
                 /\ worker'[t].last_outcome = "ok"
       ]_vars

C15_Witness ==
  \E t \in Threads :
    /\ worker[t].last_outcome = "notfound"
    /\ worker[t].calls = 2
    /\ Len(worker[t].scraped_products) = 1

(* The URLs the loop of line 762 has gone through. *)
processed_urls(w) == {w.product_urls[j] : j \in 1..(w.i - 1)}

(* C16: in a keyword worker the URLs of the collected products are among    *)
(* the processed URLs, and no URL has two records.                          *)
C16_AccumulatedRecords ==
  \A t \in Threads :
    worker[t].pc = "scrape" =>
      LET recs == worker[t].scraped_products IN
        /\ {recs[j].url : j \in DOMAIN recs} \subseteq processed_urls(worker[t])
        /\ \A a, b \in DOMAIN recs : a # b => recs[a].url # recs[b].url

(* C17: a run that was interrupted while keywords were being processed and  *)
(* had collected products has written them out when the process exits.      *)
C17_InterruptKeepsPartial ==
  (/\ main_pc = "exit"
   /\ interrupted
   /\ \E k \in DOMAIN futures : futures[k].result # << >>)
    => saved_data # NoFile

(* C21: a session is created only by a worker that starts on a thread      *)
(* without one; a worker keeps the session it started with until it        *)
(* returns; and two workers that run at the same time never hold the same  *)
(* session.                                                                 *)
C21_RendererOwnership ==
  /\ [](\A t1, t2 \in Threads :
          (t1 # t2 /\ worker[t1].pc # "idle" /\ worker[t2].pc # "idle")
            => worker[t1].session # worker[t2].session)
  /\ [](\A t \in Threads :
          worker[t].pc # "idle" => thread_driver[worker[t].session] # "none")
  /\ [][\A t \in Threads :
          /\ (worker[t].pc # "idle" /\ worker'[t].pc # "idle")
               => worker'[t].session = worker[t].session
          /\ (thread_driver[t] = "none" /\ thread_driver'[t] # "none")
               => \E u \in Threads : /\ worker[u].pc = "idle"
                                     /\ worker'[u].pc = "search"
                                     /\ worker'[u].session = t]_vars

C21_Witness ==
  /\ worker[1].pc = "scrape"
  /\ worker[2].pc = "scrape"
  /\ worker[1].calls > 0
  /\ worker[2].calls > 0
  /\ work_queue = << >>

(* C22: once main has run cleanup and returned, no session made on a pool  *)
(* thread is still open.                                                    *)
C22_RendererTeardown ==
  main_pc = "exit" => \A t \in Threads : thread_driver[t] = "none"

(* ============ Base product extraction from one product page ============ *)
MaxScripts == 2

(* Python's str.find, s[a:b] and strip on sequences of characters; indexes  *)
(* count from 0 as in the source.                                           *)
Find(s, sub, from) ==
  LET found == {i \in from..(Len(s) - Len(sub)) : SubSeq(s, i + 1, i + Len(sub)) = sub}
  IN  IF found = {} THEN -1 ELSE CHOOSE i \in found : \A j \in found : i <= j

Slice(s, a, b) == IF b <= a THEN << >> ELSE SubSeq(s, a + 1, Min(b, Len(s)))

RECURSIVE RStripChars(_, _)
RStripChars(s, chs) ==
  IF s # << >> /\ s[Len(s)] \in chs THEN RStripChars(SubSeq(s, 1, Len(s) - 1), chs) ELSE s

RECURSIVE LStripChars(_, _)
LStripChars(s, chs) ==
  IF s # << >> /\ s[1] \in chs THEN LStripChars(Tail(s), chs) ELSE s

Whitespace == {" ", "\n"}
Strip(s) == LStripChars(RStripChars(s, Whitespace), Whitespace)

(* Decoded JSON values. *)
Dict(fields) == [type |-> "dict", fields |-> fields]
EmptyDict == Dict(<< >>)
Str(text) == [type |-> "str", text |-> text]
Num(n) == [type |-> "num", n |-> n]
Null == [type |-> "null"]
List(n) == [type |-> "list", len |-> n]

(* Python truth value. *)
Truthy(v) ==
  IF v = None THEN FALSE
  ELSE CASE v.type = "dict" -> DOMAIN v.fields # {}
         [] v.type = "str" -> v.text # ""
         [] v.type = "num" -> v.n # 0
         [] v.type = "list" -> v.len > 0
         [] OTHER -> FALSE

(* dict.get(key, default) *)
Get(d, key, default) == IF key \in DOMAIN d.fields THEN d.fields[key] ELSE default

PRELOADED_STATE ==
  <<"w","i","n","d","o","w",".","_","_","P","R","E","L","O","A","D","E","D",
    "_","S","T","A","T","E","_","_">>
start_marker ==
  <<"w","i","n","d","o","w",".","_","_","P","R","E","L","O","A","D","E","D",
    "_","S","T","A","T","E","_","_"," ","="," ">>

(* The JSON texts the pages embed: product details whose name holds braces  *)
(* and an escaped quote; product details with "mrp": null; a state without  *)
(* product details; a state whose productPage is null; a list.              *)
JsonDetails ==
  <<"{","\"","p","r","o","d","u","c","t","P","a","g","e","\"",":","{","\"",
    "p","r","o","d","u","c","t","D","e","t","a","i","l","s","\"",":","{","\"",
    "n","a","m","e","\"",":","\"","a","}","\\","\"","{","\"",",","\"","m","r",
    "p","\"",":","1","}","}","}">>
JsonDetailsNullMrp ==
  <<"{","\"","p","r","o","d","u","c","t","P","a","g","e","\"",":","{","\"",
    "p","r","o","d","u","c","t","D","e","t","a","i","l","s","\"",":","{","\"",
    "n","a","m","e","\"",":","\"","b","\"",",","\"","m","r","p","\"",":","n",
    "u","l","l","}","}","}">>
JsonState ==
  <<"{","\"","p","r","o","d","u","c","t","P","a","g","e","\"",":","{","}","}">>
JsonNullPage ==
  <<"{","\"","p","r","o","d","u","c","t","P","a","g","e","\"",":","n","u","l",
    "l","}">>
JsonList ==
  <<"[","1","]">>

DetailsPage(details) == Dict([productPage |-> Dict([productDetails |-> details])])

(* json.loads on the texts above; every other text here is a cut or         *)
(* extended one and raises JSONDecodeError, which line 1195 turns into {}.  *)
json_loads(json_str) ==
  CASE json_str = JsonDetails ->
         DetailsPage(Dict([name |-> Str("a}\"{"), mrp |-> Num(1)]))
    [] json_str = JsonDetailsNullMrp ->
         DetailsPage(Dict([name |-> Str("b"), mrp |-> Null]))
    [] json_str = JsonState -> Dict([productPage |-> EmptyDict])
    [] json_str = JsonNullPage -> Dict([productPage |-> Null])
    [] json_str = JsonList -> List(1)
    [] OTHER -> EmptyDict

(* Lines 1162-1186: the end of the JSON object by counting braces; idx is   *)
(* i + 1. The result is actual_end.                                         *)
Counted(char, in_string, escape_next) ==
  ~escape_next /\ ~in_string /\ char \in {"{", "}"}

RECURSIVE CountBraces(_, _, _, _, _)
CountBraces(json_str, idx, brace_count, in_string, escape_next) ==
  CASE idx > Len(json_str) -> 0
    [] idx <= Len(json_str) /\ Counted(json_str[idx], in_string, escape_next)
         /\ json_str[idx] = "}" /\ brace_count - 1 = 0 -> idx
    [] OTHER ->
         CountBraces(json_str, idx + 1,
           IF Counted(json_str[idx], in_string, escape_next)
           THEN (IF json_str[idx] = "{" THEN brace_count + 1 ELSE brace_count - 1)
           ELSE brace_count,
           IF ~escape_next /\ json_str[idx] = "\"" THEN ~in_string ELSE in_string,
           ~escape_next /\ json_str[idx] = "\\")

(* Lines 1129-1200. *)
extract_json_data_safely(script_content, marker) ==
  IF Find(script_content, marker, 0) = -1 THEN EmptyDict
  ELSE
    LET start == Find(script_content, marker, 0) + Len(marker)
        possible_ends ==
          { Find(script_content, <<"w","i","n","d","o","w",".","_","_","A","P","P","_","D","A","T","A","_","_">>, start),
            Find(script_content, <<"w","i","n","d","o","w",".","d","a","t","a","L","a","y","e","r">>, start),
            Find(script_content, <<"<","/","s","c","r","i","p","t",">">>, start),
            Find(script_content, <<"w","i","n","d","o","w",".">>, start + 100),
            Find(script_content, <<"\n","<","s","c","r","i","p","t">>, start),
            Find(script_content, <<"\n","w","i","n","d","o","w",".">>, start + 100) }
        valid_ends == {end \in possible_ends : end > start}
        end == IF valid_ends # {}
               THEN CHOOSE e \in valid_ends : \A f \in valid_ends : e <= f
               ELSE Len(script_content) - 10
        json_str == Strip(RStripChars(Strip(Slice(script_content, start, end)), {";"}))
        actual_end == IF json_str # << >> /\ json_str[1] = "{"
                      THEN CountBraces(json_str, 1, 0, FALSE, FALSE) ELSE 0
    IN  json_loads(IF actual_end > 0 THEN SubSeq(json_str, 1, actual_end) ELSE json_str)

(* What follows the JSON in a script tag: the next window statement; a      *)
(* malformed fragment longer than ten characters; nothing.                  *)
NextStatement ==
  <<";","\n","w","i","n","d","o","w",".","_","_","A","P","P","_","D","A","T",
    "A","_","_"," ","="," ","{","}">>
MalformedTail ==
  <<";","}","{"," ","n","o","t"," ","j","s","o","n"," ","a","t"," ","a","l",
    "l">>

ScriptTexts ==
  { <<"v","a","r"," ","a",";">>,
    start_marker \o JsonDetails \o NextStatement,
    start_marker \o JsonDetails \o MalformedTail,
    start_marker \o JsonDetails,
    start_marker \o JsonDetailsNullMrp \o NextStatement,
    start_marker \o JsonState \o NextStatement,
    start_marker \o JsonNullPage \o NextStatement,
    start_marker \o JsonList \o NextStatement }

Pages ==
  { [scripts |-> scripts, html_ok |-> html_ok] :
      scripts \in UNION {[1..n -> ScriptTexts] : n \in 0..MaxScripts},
      html_ok \in BOOLEAN }

(* Lines 1386-1389 and what follows: without a soup there is nothing to     *)
(* select from; with one, html_ok says whether the selectors run through.   *)
extract_from_html_fallback(page) ==
  IF page = None THEN None
  ELSE IF page.html_ok THEN [strategy |-> "html"] ELSE None

(* float(product_data.get('mrp', 0)) of line 1225 raises on null. *)
ConversionRaises(details) == Get(details, "mrp", Num(0)).type # "num"

(* Lines 1202-1383: the record, or on an exception the fallback of line     *)
(* 1383, which is handed None for the soup.                                 *)
extract_from_json_data(details) ==
  IF ConversionRaises(details) THEN extract_from_html_fallback(None)
  ELSE [strategy |-> "json", name |-> details.fields["name"].text]

InfoInit ==
  /\ info_pc = "scripts"
  /\ soup \in Pages
  /\ script_idx = 1
  /\ product_data = None
  /\ safe_call = None
  /\ html_consulted = "no"
  /\ product_info = None
  /\ OutsideInfoIdle

(* a dict with product details that carry a name (lines 1108-1111) *)
NamedDetails(data) ==
  /\ Truthy(data) /\ data.type = "dict"
  /\ Get(data, "productPage", EmptyDict).type = "dict"
  /\ LET product_details == Get(Get(data, "productPage", EmptyDict), "productDetails", EmptyDict)
     IN  /\ Truthy(product_details)
         /\ product_details.type = "dict"
         /\ Truthy(Get(product_details, "name", Null))

(* Lines 1101-1115: one script tag of the loop. *)
ScanScript ==
  /\ info_pc = "scripts"
  /\ script_idx <= Len(soup.scripts)
  /\ LET script_content == soup.scripts[script_idx] IN
       IF Find(script_content, PRELOADED_STATE, 0) = -1
       THEN /\ script_idx' = script_idx + 1
            /\ UNCHANGED <<info_pc, product_data, safe_call>>
       ELSE LET data == extract_json_data_safely(script_content, start_marker) IN
            /\ safe_call' = [script |-> script_content, result |-> data]
            /\ IF NamedDetails(data)
               THEN /\ product_data' = data.fields["productPage"].fields["productDetails"]
                    /\ info_pc' = "found"
                    /\ UNCHANGED script_idx
               ELSE /\ product_data' = data
                    /\ script_idx' = script_idx + 1
                    /\ UNCHANGED info_pc
  /\ UNCHANGED <<soup, html_consulted, product_info>>
  /\ UNCHANGED outsideInfo

(* Lines 1117-1127. A product_data that is not a dict has no get: the       *)
(* except of line 1125 returns None.                                        *)
ReturnInfo ==
  /\ \/ info_pc = "found"
     \/ info_pc = "scripts" /\ script_idx > Len(soup.scripts)
  /\ IF Truthy(product_data) /\ product_data.type # "dict"
     THEN product_info' = None /\ UNCHANGED html_consulted
     ELSE IF Truthy(product_data) /\ Truthy(Get(product_data, "name", Null))
     THEN /\ product_info' = extract_from_json_data(product_data)
          /\ html_consulted' = IF ConversionRaises(product_data) THEN "None" ELSE "no"
     ELSE /\ product_info' = extract_from_html_fallback(soup)
          /\ html_consulted' = "soup"
  /\ info_pc' = "done"
  /\ UNCHANGED <<soup, script_idx, product_data, safe_call>>
  /\ UNCHANGED outsideInfo

InfoNext == ScanScript \/ ReturnInfo

InfoSpec == InfoInit /\ [][InfoNext]_vars

(* C23: when a script tag decodes to product details with a name, the       *)
(* record comes from them and the HTML of the page is not consulted; the    *)
(* HTML fallback is given the page only when no such details were found;    *)
(* and on a page whose HTML yields a record, a record is returned.          *)
C23_ExtractionPriority ==
  info_pc = "done" =>
    LET named == \E i \in DOMAIN soup.scripts :
                   NamedDetails(extract_json_data_safely(soup.scripts[i], start_marker))
    IN  /\ (named /\ product_info # None) => product_info.strategy = "json"
        /\ html_consulted = "soup" => ~named
        /\ soup.html_ok => product_info # None

(* C24: for a script that is the marker, a balanced JSON object and any     *)
(* trailing text, the extractor returns the decoded object.                 *)
C24_BalancedJson ==
  \A json \in {JsonDetails, JsonDetailsNullMrp, JsonState, JsonNullPage} :
    (safe_call # None /\ IsPrefix(start_marker \o json, safe_call.script))
      => safe_call.result = json_loads(json)

(* ============ Navigations and delays of one keyword worker ============ *)
MaxNavProducts == 2
MaxNavClicks == 2

(* Where the code stands after a navigation that returned: at the           *)
(* random_delay of the next line (802, 900, 1033, 1849).                    *)
after_get_no_delay(kind) ==
  CASE kind = "search" -> "search_page"
    [] kind = "next" -> "search_page"
    [] kind = "product" -> "product_page"
    [] kind = "reviews" -> "reviews_page"

after_get(kind) ==
  CASE kind = "search" -> "search_delay"
    [] kind = "next" -> "next_delay"
    [] kind = "product" -> "product_delay"
    [] kind = "reviews" -> "reviews_delay"

(* Where a driver.get that raises leaves the code: the search returns []    *)
(* (915-919), the product is None and the loop goes on at line 769          *)
(* (1074-1076), the reviews fall back to the current page (1879-1881).      *)
after_get_raised(kind) ==
  CASE kind = "search" -> "worker_loop"
    [] kind = "product" -> "loop_delay"
    [] kind = "reviews" -> "fallback"

NavInit ==
  /\ nav_pc = "search_get"
  /\ nav_left = 0
  /\ nav_clicks = 0
  /\ undelayed_get = FALSE
  /\ get_since_delay = FALSE
  /\ navigated = {}
  /\ unpaced = FALSE
  /\ OutsideNavIdle

(* driver.get of lines 801, 1032 and 1848. *)
NavGet ==
  /\ nav_pc \in {"search_get", "product_get", "reviews_get"}
  /\ LET kind == CASE nav_pc = "search_get" -> "search"
                   [] nav_pc = "product_get" -> "product"
                   [] nav_pc = "reviews_get" -> "reviews"
     IN  \E returns \in BOOLEAN :
           /\ nav_pc' = IF returns THEN after_get(kind) ELSE after_get_raised(kind)
           /\ undelayed_get' = returns
           /\ navigated' = IF returns THEN navigated \cup {kind} ELSE navigated
  /\ get_since_delay' = TRUE
  /\ unpaced' = (unpaced \/ get_since_delay)
  /\ UNCHANGED <<nav_left, nav_clicks>>
  /\ UNCHANGED outsideNav

(* random_delay of lines 769, 802, 900, 1033 and 1849. *)
NavRandomDelay ==
  /\ nav_pc \in {"search_delay", "next_delay", "product_delay", "reviews_delay",
                 "loop_delay"}
  /\ nav_pc' = CASE nav_pc \in {"search_delay", "next_delay"} -> "search_page"
                 [] nav_pc = "product_delay" -> "product_page"
                 [] nav_pc = "reviews_delay" -> "reviews_page"
                 [] nav_pc = "loop_delay" -> "worker_loop"
  /\ undelayed_get' = FALSE
  /\ get_since_delay' = FALSE
  /\ UNCHANGED <<nav_left, nav_clicks, navigated, unpaced>>
  /\ UNCHANGED outsideNav

(* Lines 809-913: one result page: the wait, the cards and either the click *)
(* on the next-page button or the end of the search with its URLs.          *)
NavSearchPage ==
  /\ nav_pc = "search_page"
  /\ unpaced' = (unpaced \/ undelayed_get)
  /\ \/ /\ nav_clicks < MaxNavClicks
        /\ nav_clicks' = nav_clicks + 1
        /\ nav_pc' = after_get("next")
        /\ undelayed_get' = TRUE
        /\ get_since_delay' = TRUE
        /\ navigated' = navigated \cup {"next"}
        /\ UNCHANGED nav_left
     \/ /\ nav_left' \in 0..MaxNavProducts
        /\ nav_pc' = "worker_loop"
        /\ UNCHANGED <<nav_clicks, undelayed_get, get_since_delay, navigated>>
  /\ UNCHANGED outsideNav

(* Line 762: the next URL, or the end of the worker (line 771). *)
NavWorkerLoop ==
  /\ nav_pc = "worker_loop"
  /\ IF nav_left > 0
     THEN nav_pc' = "product_get" /\ nav_left' = nav_left - 1
     ELSE nav_pc' = "done" /\ UNCHANGED nav_left
  /\ UNCHANGED <<nav_clicks, undelayed_get, get_since_delay, navigated, unpaced>>
  /\ UNCHANGED outsideNav

(* Lines 1036-1064 and 1829-1831: popups, the wait, page_source and the     *)
(* product id. No record or an exception ends the product; a product id     *)
(* leads to the reviews page, none to the fallback.                         *)
NavProductPage ==
  /\ nav_pc = "product_page"
  /\ unpaced' = (unpaced \/ undelayed_get)
  /\ nav_pc' \in {"loop_delay", "reviews_get", "fallback"}
  /\ UNCHANGED <<nav_left, nav_clicks, undelayed_get, get_since_delay, navigated>>
  /\ UNCHANGED outsideNav

(* Lines 1852-1875: popups, the wait and the infinite scroll; reviews end   *)
(* the product, a timeout, no review or an exception lead to the fallback.  *)
NavReviewsPage ==
  /\ nav_pc = "reviews_page"
  /\ unpaced' = (unpaced \/ undelayed_get)
  /\ nav_pc' \in {"loop_delay", "fallback"}
  /\ UNCHANGED <<nav_left, nav_clicks, undelayed_get, get_since_delay, navigated>>
  /\ UNCHANGED outsideNav

(* Lines 2454-2486: page_source of the page the renderer shows. *)
NavFallback ==
  /\ nav_pc = "fallback"
  /\ unpaced' = (unpaced \/ undelayed_get)
  /\ nav_pc' = "loop_delay"
  /\ UNCHANGED <<nav_left, nav_clicks, undelayed_get, get_since_delay, navigated>>
  /\ UNCHANGED outsideNav

NavNext ==
  \/ NavGet \/ NavRandomDelay \/ NavSearchPage \/ NavWorkerLoop
  \/ NavProductPage \/ NavReviewsPage \/ NavFallback

NavSpec == NavInit /\ [][NavNext]_vars

MaxCalls == 2
MaxKeywordsPerCall == 2
ReviewCounts == {0, 2}

(* What a keyword's future returns: its products. *)
FutureResults ==
  {<< >>} \cup {<<n>> : n \in ReviewCounts}
          \cup {<<n, m>> : n \in ReviewCounts, m \in ReviewCounts}

RECURSIVE SumSeq(_)
SumSeq(s) == IF s = << >> THEN 0 ELSE Head(s) + SumSeq(Tail(s))

(* Lines 173-181. *)
AggInit ==
  /\ agg_pc = "ready"
  /\ agg_calls = 0
  /\ agg_pending = 0
  /\ call_products = << >>
  /\ scrape_metadata = [total_products |-> 0, total_reviews |-> 0]
  /\ data_products = << >>
  /\ OutsideAggIdle

(* Lines 2837-2849: a call begins with an empty all_scraped_products and    *)
(* submits its keywords; the totals are left as they are.                   *)
CallBegin ==
  /\ agg_pc = "ready"
  /\ agg_calls < MaxCalls
  /\ agg_calls' = agg_calls + 1
  /\ agg_pending' \in 0..MaxKeywordsPerCall
  /\ call_products' = << >>
  /\ agg_pc' = "collecting"
  /\ UNCHANGED <<scrape_metadata, data_products>>
  /\ UNCHANGED outsideAgg

(* Lines 2852-2865: one future of the as_completed loop; a future that      *)
(* raises is logged and skipped.                                            *)
TakeFuture ==
  /\ agg_pc = "collecting"
  /\ agg_pending > 0
  /\ agg_pending' = agg_pending - 1
  /\ \E raises \in BOOLEAN, scraped \in FutureResults :
       IF raises
       THEN UNCHANGED <<call_products, scrape_metadata>>
       ELSE /\ call_products' = call_products \o scraped
            /\ scrape_metadata' =
                 [scrape_metadata EXCEPT !.total_reviews =
                    @ + SumSeq(scraped)]
  /\ UNCHANGED <<agg_pc, agg_calls, data_products>>
  /\ UNCHANGED outsideAgg

(* Lines 2867-2872. *)
CallReturn ==
  /\ agg_pc = "collecting"
  /\ agg_pending = 0
  /\ data_products' = call_products
  /\ scrape_metadata' = [scrape_metadata EXCEPT !.total_products = Len(call_products)]
  /\ agg_pc' = "ready"
  /\ UNCHANGED <<agg_calls, agg_pending, call_products>>
  /\ UNCHANGED outsideAgg

AggNext == CallBegin \/ TakeFuture \/ CallReturn

AggSpec == AggInit /\ [][AggNext]_vars

(* C29: between calls of scrape_keywords total_products is the length of    *)
(* the products list and total_reviews the sum of the review counts of its  *)
(* records.                                                                 *)
C29_AggregateConsistency ==
  agg_pc = "ready" =>
    /\ scrape_metadata.total_products = Len(data_products)
    /\ scrape_metadata.total_reviews = SumSeq(data_products)

(* ============ Persistence of a keyword's state across runs ============ *)
StoreKeywords == {"k1", "k2"}
StoreUrls == {"u1", "u2"}
MaxRecords == 2

ProductRecord(url) == [product_url |-> url]

(* open(filename, 'w') leaves an empty file until json.dump has written. *)
Truncated == [file |-> TRUE, complete |-> FALSE]

JsonDump(keyword, products) ==
  [file |-> TRUE, complete |-> TRUE, keyword |-> keyword, products |-> products]

StoreInit ==
  /\ run_pc = "exited"
  /\ run_keyword = ""
  /\ scraped_products = << >>
  /\ scraped_data = << >>
  /\ disk = [f \in OutputFiles |-> NoFile]
  /\ filename = ""
  /\ last_saved = None
  /\ OutsideStoreIdle

(* The program is started for a keyword: __init__ sets up scraped_data, the *)
(* keyword worker starts with an empty list. Nothing is read from disk.     *)
RunStart ==
  /\ run_pc = "exited"
  /\ \E keyword \in StoreKeywords : run_keyword' = keyword
  /\ scraped_data' = << >>
  /\ scraped_products' = << >>
  /\ run_pc' = "started"
  /\ UNCHANGED <<disk, filename, last_saved>>
  /\ UNCHANGED outsideStore

(* The worker scrapes one more product of its keyword. *)
WorkerAppend ==
  /\ run_pc \in {"started", "scraping"}
  /\ Len(scraped_products) < MaxRecords
  /\ \E url \in StoreUrls :
       scraped_products' = Append(scraped_products, ProductRecord(url))
  /\ run_pc' = "scraping"
  /\ UNCHANGED <<run_keyword, scraped_data, disk, filename, last_saved>>
  /\ UNCHANGED outsideStore

(* The worker returns; scrape_keywords stores its products. *)
WorkerDone ==
  /\ run_pc \in {"started", "scraping"}
  /\ scraped_data' = scraped_products
  /\ run_pc' = "collected"
  /\ UNCHANGED <<run_keyword, scraped_products, disk, filename, last_saved>>
  /\ UNCHANGED outsideStore

(* save_data opens its file for writing. *)
SaveOpen ==
  /\ run_pc = "collected"
  /\ \E f \in OutputFiles :
       /\ filename' = f
       /\ disk' = [disk EXCEPT ![f] = Truncated]
  /\ run_pc' = "writing"
  /\ last_saved' = None
  /\ UNCHANGED <<run_keyword, scraped_products, scraped_data>>
  /\ UNCHANGED outsideStore

(* json.dump writes scraped_data; save_data returns. *)
SaveDump ==
  /\ run_pc = "writing"
  /\ disk' = [disk EXCEPT ![filename] = JsonDump(run_keyword, scraped_data)]
  /\ last_saved' = [keyword |-> run_keyword, products |-> scraped_data]
  /\ run_pc' = "saved"
  /\ UNCHANGED <<run_keyword, scraped_products, scraped_data, filename>>
  /\ UNCHANGED outsideStore

(* main returns after cleanup. *)
RunExit ==
  /\ run_pc = "saved"
  /\ run_pc' = "exited"
  /\ UNCHANGED <<run_keyword, scraped_products, scraped_data, disk, filename, last_saved>>
  /\ UNCHANGED outsideStore

(* The process is killed; the files stay as they are. *)
RunKilled ==
  /\ run_pc \in {"started", "scraping", "collected", "writing"}
  /\ run_pc' = "exited"
  /\ UNCHANGED <<run_keyword, scraped_products, scraped_data, disk, filename, last_saved>>
  /\ UNCHANGED outsideStore

StoreNext ==
  \/ RunStart \/ WorkerAppend \/ WorkerDone \/ SaveOpen \/ SaveDump \/ RunExit
  \/ RunKilled

StoreSpec == StoreInit /\ [][StoreNext]_vars

(* C18: a keyword worker that starts after a save of its keyword's state    *)
(* starts with the records that were saved, in the same order.              *)
C18_CheckpointRoundTrip ==
  (/\ run_pc = "started"
   /\ last_saved # None
   /\ last_saved.keyword = run_keyword)
    => scraped_products = last_saved.products

(* C19: every file save_data has written to holds a complete state, the one *)
(* it held before the save or the one being saved.                          *)
C19_AtomicSave ==
  \A f \in OutputFiles : disk[f] = NoFile \/ disk[f].complete

====
